---- MODULE Spec2Model ----
(***************************************************************************)
(* csv_to_sqlite.py: the identifier sanitizer, the two-pass type inference *)
(* and the transactional import of a CSV file into an SQLite table.        *)
(*                                                                         *)
(* A Python str is a sequence of one-character strings; the byte order     *)
(* mark U+FEFF is the character "BOM" and Python's None is NoneStr.        *)
(***************************************************************************)
EXTENDS Integers, Sequences, FiniteSets, TLC

(***************************************************************************)
(* Bounds of the model.                                                    *)
(***************************************************************************)
\* longest header list handed to sanitize_headers
MaxHeaders == 3
\* most data rows in an input CSV
MaxRows == 3
\* batch_size of main (1000 in the source, line 262), scaled so that both
\* the in-loop flush and the final partial flush happen within MaxRows
BatchSize == 2

(***************************************************************************)
(* Characters and strings.                                                 *)
(***************************************************************************)
NoneStr == <<"None">>

DigitSeq == <<"0","1","2","3","4","5","6","7","8","9">>
LowerSeq == <<"a","b","c","d","e","f","g","h","i","j","k","l","m",
              "n","o","p","q","r","s","t","u","v","w","x","y","z">>
UpperSeq == <<"A","B","C","D","E","F","G","H","I","J","K","L","M",
              "N","O","P","Q","R","S","T","U","V","W","X","Y","Z">>

SeqRange(s) == {s[i] : i \in 1..Len(s)}

DigitChars == SeqRange(DigitSeq)
LowerChars == SeqRange(LowerSeq)
UpperChars == SeqRange(UpperSeq)
WhitespaceChars == {" ", "\t", "\n", "\r"}

\* str.lower() on one character
LowerChar(c) ==
    IF c \in UpperChars
    THEN LowerSeq[CHOOSE i \in 1..Len(UpperSeq) : UpperSeq[i] = c]
    ELSE c

\* str.lower()
Lower(s) == [i \in 1..Len(s) |-> LowerChar(s[i])]

RECURSIVE LStrip(_, _)
LStrip(s, chars) ==
    IF s # <<>> /\ Head(s) \in chars THEN LStrip(Tail(s), chars) ELSE s

RECURSIVE RStrip(_, _)
RStrip(s, chars) ==
    IF s # <<>> /\ s[Len(s)] \in chars
    THEN RStrip(SubSeq(s, 1, Len(s) - 1), chars)
    ELSE s

\* str.strip(chars)
Strip(s, chars) == RStrip(LStrip(s, chars), chars)

\* str.replace(c, "")
RemoveChar(s, c) == SelectSeq(s, LAMBDA x : x # c)

\* str(n) for a natural number
RECURSIVE Str(_)
Str(n) ==
    IF n < 10 THEN <<DigitSeq[n + 1]>>
    ELSE Str(n \div 10) \o <<DigitSeq[(n % 10) + 1]>>

(***************************************************************************)
(* Identifier sanitizer.                                                   *)
(***************************************************************************)
SQLITE_RESERVED_KEYWORDS == {
    <<"a","b","o","r","t">>, <<"a","c","t","i","o","n">>, <<"a","d","d">>,
    <<"a","f","t","e","r">>, <<"a","l","l">>, <<"a","l","t","e","r">>,
    <<"a","n","a","l","y","z","e">>, <<"a","n","d">>, <<"a","s">>,
    <<"a","s","c">>, <<"a","t","t","a","c","h">>, <<"a","u","t","o","i","n","c","r","e","m","e","n","t">>,
    <<"b","e","f","o","r","e">>, <<"b","e","g","i","n">>, <<"b","e","t","w","e","e","n">>,
    <<"b","y">>, <<"c","a","s","c","a","d","e">>, <<"c","a","s","e">>,
    <<"c","a","s","t">>, <<"c","h","e","c","k">>, <<"c","o","l","l","a","t","e">>,
    <<"c","o","l","u","m","n">>, <<"c","o","m","m","i","t">>, <<"c","o","n","f","l","i","c","t">>,
    <<"c","o","n","s","t","r","a","i","n","t">>, <<"c","r","e","a","t","e">>, <<"c","r","o","s","s">>,
    <<"c","u","r","r","e","n","t","_","d","a","t","e">>, <<"c","u","r","r","e","n","t","_","t","i","m","e">>, <<"c","u","r","r","e","n","t","_","t","i","m","e","s","t","a","m","p">>,
    <<"d","a","t","a","b","a","s","e">>, <<"d","e","f","a","u","l","t">>, <<"d","e","f","e","r","r","a","b","l","e">>,
    <<"d","e","f","e","r","r","e","d">>, <<"d","e","l","e","t","e">>, <<"d","e","s","c">>,
    <<"d","e","t","a","c","h">>, <<"d","i","s","t","i","n","c","t">>, <<"d","r","o","p">>,
    <<"e","a","c","h">>, <<"e","l","s","e">>, <<"e","n","d">>,
    <<"e","s","c","a","p","e">>, <<"e","x","c","e","p","t">>, <<"e","x","c","l","u","s","i","v","e">>,
    <<"e","x","i","s","t","s">>, <<"e","x","p","l","a","i","n">>, <<"f","a","i","l">>,
    <<"f","o","r">>, <<"f","o","r","e","i","g","n">>, <<"f","r","o","m">>,
    <<"f","u","l","l">>, <<"g","l","o","b","a">>, <<"g","r","o","u","p">>,
    <<"h","a","v","i","n","g">>, <<"i","f">>, <<"i","g","n","o","r","e">>,
    <<"i","m","m","e","d","i","a","t","e">>, <<"i","n">>, <<"i","n","d","e","x">>,
    <<"i","n","d","e","x","e","d">>, <<"i","n","i","t","i","a","l","l","y">>, <<"i","n","n","e","r">>,
    <<"i","n","s","e","r","t">>, <<"i","n","s","t","e","a","d">>, <<"i","n","t","e","r","s","e","c","t">>,
    <<"i","n","t","o">>, <<"i","s">>, <<"i","s","n","u","l","l">>,
    <<"j","o","i","n">>, <<"k","e","y">>, <<"l","e","f","t">>,
    <<"l","i","k","e">>, <<"l","i","m","i","t">>, <<"m","a","t","c","h">>,
    <<"n","a","t","u","r","a","l">>, <<"n","o">>, <<"n","o","t">>,
    <<"n","o","t","n","u","l","l">>, <<"n","u","l","l">>, <<"o","f">>,
    <<"o","f","f","s","e","t">>, <<"o","n">>, <<"o","r">>,
    <<"o","r","d","e","r">>, <<"o","u","t","e","r">>, <<"p","l","a","n">>,
    <<"p","r","a","g","m","a">>, <<"p","r","i","m","a","r","y">>, <<"q","u","e","r","y">>,
    <<"r","a","i","s","e">>, <<"r","e","c","u","r","s","i","v","e">>, <<"r","e","f","e","r","e","n","c","e","s">>,
    <<"r","e","g","e","x","p">>, <<"r","e","i","n","d","e","x">>, <<"r","e","l","e","a","s","e">>,
    <<"r","e","n","a","m","e">>, <<"r","e","p","l","a","c","e">>, <<"r","e","s","t","r","i","c","t">>,
    <<"r","i","g","h","t">>, <<"r","o","l","l","b","a","c","k">>, <<"r","o","w">>,
    <<"s","a","v","e","p","o","i","n","t">>, <<"s","e","l","e","c","t">>, <<"s","e","t">>,
    <<"t","a","b","l","e">>, <<"t","e","m","p","o","r","a","r","y">>, <<"t","h","e","n">>,
    <<"t","o">>, <<"t","r","a","n","s","a","c","t","i","o","n">>, <<"t","r","i","g","g","e","r">>,
    <<"u","n","i","o","n">>, <<"u","n","i","q","u","e">>, <<"u","p","d","a","t","e">>,
    <<"u","s","i","n","g">>, <<"v","a","c","u","u","m">>, <<"v","a","l","u","e","s">>,
    <<"v","i","e","w">>, <<"v","i","r","t","u","a","l">>, <<"w","h","e","n">>,
    <<"w","h","e","r","e">>, <<"w","i","t","h","o","u","t">>, <<"i","n","t","e","g","e","r">>,
    <<"r","e","a","l">>, <<"t","e","x","t">>, <<"b","l","o","b">>
}

\* the characters IDENTIFIER_CLEAN_RE leaves alone: [A-Za-z0-9_]
IdentifierChars == LowerChars \cup UpperChars \cup DigitChars \cup {"_"}

\* IDENTIFIER_CLEAN_RE.sub("_", s): every maximal run of characters outside
\* [A-Za-z0-9_] becomes one underscore
RECURSIVE CleanRuns(_, _)
CleanRuns(s, inRun) ==
    IF s = <<>> THEN <<>>
    ELSE IF Head(s) \in IdentifierChars
         THEN <<Head(s)>> \o CleanRuns(Tail(s), FALSE)
         ELSE IF inRun THEN CleanRuns(Tail(s), TRUE)
              ELSE <<"_">> \o CleanRuns(Tail(s), TRUE)

IDENTIFIER_CLEAN_RE_sub(s) == CleanRuns(s, FALSE)

\* re.sub(r"_+", "_", s)
RECURSIVE CollapseUnderscores(_)
CollapseUnderscores(s) ==
    IF Len(s) < 2 THEN s
    ELSE IF s[1] = "_" /\ s[2] = "_"
         THEN CollapseUnderscores(Tail(s))
         ELSE <<Head(s)>> \o CollapseUnderscores(Tail(s))

\* the used=None argument of sanitize_identifier
NoUsed == {NoneStr}

\* the while loop of sanitize_identifier: first free suffix _1, _2, ...
\* the loop written as a single "if": one suffix is tried and not checked
DedupLoopOnce(base, suffix, cleaned, used) ==
    IF cleaned \in used THEN base \o <<"_">> \o Str(suffix) ELSE cleaned

RECURSIVE DedupLoop(_, _, _, _)
DedupLoop(base, suffix, cleaned, used) ==
    IF cleaned \in used
    THEN DedupLoop(base, suffix + 1, base \o <<"_">> \o Str(suffix), used)
    ELSE cleaned

\* the reserved-word check left out
EscapeReservedNever(cleaned) == cleaned

\* step 5 of sanitize_identifier: a reserved keyword gets a trailing underscore
EscapeReserved(cleaned) ==
    IF cleaned \in SQLITE_RESERVED_KEYWORDS THEN cleaned \o <<"_">> ELSE cleaned

\* steps 1-5 of sanitize_identifier, before the uniqueness loop
CleanIdentifier(raw, fallback_prefix) ==
    LET text    == Strip(RemoveChar(IF raw = NoneStr THEN <<>> ELSE raw, "BOM"),
                         WhitespaceChars)
        lowered == Lower(text)
        c1      == CollapseUnderscores(Strip(IDENTIFIER_CLEAN_RE_sub(lowered), {"_"}))
        c2      == IF c1 = <<>> THEN fallback_prefix ELSE c1
        c3      == IF c2[1] \in DigitChars THEN fallback_prefix \o <<"_">> \o c2 ELSE c2
    IN  EscapeReserved(c3)

\* sanitize_identifier: the name returned and the used set it leaves behind
sanitize_identifier(raw, fallback_prefix, used) ==
    LET cleaned == CleanIdentifier(raw, fallback_prefix)
    IN  IF used = NoUsed
        THEN [name |-> cleaned, used |-> used]
        ELSE LET final == DedupLoop(cleaned, 1, cleaned, used)
             IN  [name |-> final, used |-> used \cup {final}]

\* fallback_prefix=f"col_{index+1}" for the 1-based position i
ColPrefix(i) == <<"c","o","l","_">> \o Str(i)

\* one iteration of the loop of sanitize_headers on st = [used, sanitized]
SanitizeHeadersStep(st, raw) ==
    LET r == sanitize_identifier(raw, ColPrefix(Len(st.sanitized) + 1), st.used)
    IN  [used |-> r.used, sanitized |-> Append(st.sanitized, r.name)]

RECURSIVE SanitizeHeadersLoop(_, _)
SanitizeHeadersLoop(st, rest) ==
    IF rest = <<>> THEN st
    ELSE SanitizeHeadersLoop(SanitizeHeadersStep(st, Head(rest)), Tail(rest))

sanitize_headers(headers) ==
    SanitizeHeadersLoop([used |-> {}, sanitized |-> <<>>], headers).sanitized

(***************************************************************************)
(* Cell classification and conversion.                                     *)
(***************************************************************************)
NULL_TOKENS == { <<>>, <<"n","a">>, <<"n","/","a">>,
                 <<"n","u","l","l">>, <<"n","o","n","e">> }

\* parse_null with the case folding left out
parse_null_case_sensitive(value) ==
    IF value = NoneStr THEN NoneStr
    ELSE LET v == Strip(value, WhitespaceChars)
         IN  IF v \in NULL_TOKENS THEN NoneStr ELSE v

parse_null(value) ==
    IF value = NoneStr THEN NoneStr
    ELSE LET v == Strip(value, WhitespaceChars)
         IN  IF Lower(v) \in NULL_TOKENS THEN NoneStr ELSE v

AllDigits(s) == \A i \in 1..Len(s) : s[i] \in DigitChars

HasSign(s) == s # <<>> /\ s[1] \in {"+", "-"}
Unsigned(s) == IF HasSign(s) THEN Tail(s) ELSE s
IsNegative(s) == s # <<>> /\ s[1] = "-"

\* INT_RE = ^[+-]?\d+$
is_int(value) == Unsigned(value) # <<>> /\ AllDigits(Unsigned(value))

\* the value of a digit string (used for exponents only)
RECURSIVE DigitsValue(_)
DigitsValue(s) ==
    IF s = <<>> THEN 0
    ELSE 10 * DigitsValue(SubSeq(s, 1, Len(s) - 1))
         + ((CHOOSE i \in 1..10 : DigitSeq[i] = s[Len(s)]) - 1)

\* float(value): the decimal and the inf/nan forms of Python's float();
\* digit-group underscores are not modelled. finite is FALSE for inf, nan
\* and a decimal whose leading digit has a decimal exponent above 308
\* (the overflow threshold 1.797...e308 is rounded to 1e309).
NonFiniteWords == { <<"i","n","f">>, <<"n","a","n">>,
                    <<"i","n","f","i","n","i","t","y">> }

FirstIndex(s, chars) ==
    IF \E i \in 1..Len(s) : s[i] \in chars
    THEN CHOOSE i \in 1..Len(s) :
            s[i] \in chars /\ \A j \in 1..(i - 1) : s[j] \notin chars
    ELSE 0

PyFloat(value) ==
    LET b    == Unsigned(value)
        k    == FirstIndex(b, {"e", "E"})
        mant == IF k = 0 THEN b ELSE SubSeq(b, 1, k - 1)
        ex   == IF k = 0 THEN <<>> ELSE SubSeq(b, k + 1, Len(b))
        d    == FirstIndex(mant, {"."})
        ip   == IF d = 0 THEN mant ELSE SubSeq(mant, 1, d - 1)
        fp   == IF d = 0 THEN <<>> ELSE SubSeq(mant, d + 1, Len(mant))
        exOk == k = 0 \/ (Unsigned(ex) # <<>> /\ AllDigits(Unsigned(ex)))
        ok   == AllDigits(ip) /\ AllDigits(fp) /\ Len(ip) + Len(fp) >= 1 /\ exOk
        e    == IF k = 0 \/ ~exOk THEN 0
                ELSE IF IsNegative(ex) THEN 0 - DigitsValue(Unsigned(ex))
                     ELSE DigitsValue(Unsigned(ex))
        ipn  == LStrip(ip, {"0"})
        fpn  == RStrip(fp, {"0"})
        lead == IF ipn # <<>> THEN Len(ipn) - 1 + e
                ELSE e - (Len(fpn) - Len(LStrip(fpn, {"0"})) + 1)
        zero == ipn = <<>> /\ fpn = <<>>
    IN  IF Lower(b) \in NonFiniteWords
        THEN [ok |-> TRUE, finite |-> FALSE, neg |-> IsNegative(value),
              ip |-> <<>>, fp |-> <<>>, e |-> 0]
        ELSE IF ~ok
        THEN [ok |-> FALSE, finite |-> FALSE, neg |-> FALSE,
              ip |-> <<>>, fp |-> <<>>, e |-> 0]
        ELSE [ok |-> TRUE, finite |-> zero \/ lead <= 308,
              neg |-> IsNegative(value), ip |-> ipn, fp |-> fpn, e |-> e]

is_float(value) ==
    LET number == PyFloat(value)
    IN  number.ok /\ number.finite /\ ~is_int(value)

\* Python's None where a type name is expected
NoType == "None"

\* observed_cell_type: "INTEGER", "REAL", "TEXT" or NoType for a null cell
observed_cell_type(value) ==
    LET v == parse_null(value)
    IN  IF v = NoneStr THEN NoType
        ELSE IF is_int(v) THEN "INTEGER"
        ELSE IF is_float(v) THEN "REAL"
        ELSE "TEXT"

order(t) == CASE t = "INTEGER" -> 0 [] t = "REAL" -> 1 [] t = "TEXT" -> 2

\* upgrade_type taking whatever was observed last
upgrade_type_last(current, observed) ==
    IF observed = NoType THEN current ELSE observed

upgrade_type(current, observed) ==
    IF observed = NoType THEN current
    ELSE IF current = observed THEN current
    ELSE IF order(current) >= order(observed) THEN current ELSE observed

(***************************************************************************)
(* Python values bound to the insert statement.                            *)
(***************************************************************************)
Value(t, neg, a, b, e) == [t |-> t, neg |-> neg, a |-> a, b |-> b, e |-> e]
None == Value("null", FALSE, <<>>, <<>>, 0)

\* int(v): optional sign and decimal digits (digit-group underscores are not
\* modelled); ok = FALSE stands for ValueError. The value is unbounded: it
\* is kept as its sign and its digits without leading zeros.
PyInt(v) ==
    LET digits == LStrip(Unsigned(v), {"0"})
    IN  IF Unsigned(v) # <<>> /\ AllDigits(Unsigned(v))
        THEN [ok |-> TRUE,
              val |-> Value("int", IsNegative(v) /\ digits # <<>>, digits, <<>>, 0)]
        ELSE [ok |-> FALSE, val |-> None]

convert_value(value, target_type) ==
    LET v == parse_null(value)
    IN  IF v = NoneStr THEN None
        ELSE IF target_type = "INTEGER"
        THEN IF PyInt(v).ok THEN PyInt(v).val ELSE None
        ELSE IF target_type = "REAL"
        THEN LET number == PyFloat(v)
             IN  IF number.ok /\ number.finite
                 THEN Value("real", number.neg, number.ip, number.fp, number.e)
                 ELSE None
        ELSE Value("text", FALSE, v, <<>>, 0)

\* SQLite stores INTEGER in 64 bits, two's complement:
\* -9223372036854775808 .. 9223372036854775807
Int64MaxDigits == <<"9","2","2","3","3","7","2","0","3","6",
                    "8","5","4","7","7","5","8","0","7">>
Int64MinDigits == <<"9","2","2","3","3","7","2","0","3","6",
                    "8","5","4","7","7","5","8","0","8">>

DigitOf(c) == (CHOOSE i \in 1..10 : DigitSeq[i] = c) - 1

\* a <= b for digit strings without leading zeros
RECURSIVE DigitsLeqSameLen(_, _)
DigitsLeqSameLen(a, b) ==
    IF a = <<>> THEN TRUE
    ELSE IF DigitOf(a[1]) < DigitOf(b[1]) THEN TRUE
    ELSE IF DigitOf(a[1]) > DigitOf(b[1]) THEN FALSE
    ELSE DigitsLeqSameLen(Tail(a), Tail(b))

DigitsLeq(a, b) ==
    Len(a) < Len(b) \/ (Len(a) = Len(b) /\ DigitsLeqSameLen(a, b))

\* binding a Python value: an int outside 64 bits raises OverflowError
\* ("Python int too large to convert to SQLite INTEGER")
BindOverflows(val) ==
    val.t = "int"
    /\ ~DigitsLeq(val.a, IF val.neg THEN Int64MinDigits ELSE Int64MaxDigits)

(***************************************************************************)
(* The importer: main.                                                     *)
(***************************************************************************)
VARIABLES
    pc,                 \* position in main
    csv,                \* the input file: [exists, readable, lines]
    raw_headers,        \* main: raw_headers
    sanitized_headers,  \* main: sanitized_headers
    inferred_types,     \* infer_column_types: types
    row_count,          \* infer_column_types: rows_count
    table_name,         \* main: table_name
    conn,               \* "unbound", "open" or "closed"
    in_tx,              \* the connection has an open transaction
    db,                 \* the committed database: what any reader sees
    work,               \* the database as the connection sees it
    batch,              \* main: batch
    inserted_rows,      \* main: inserted_rows
    rows_read,          \* data rows pass 2 has read
    status,             \* "running", "0", "1" (returned) or "raised"
    tx_end,             \* how the last transaction ended
    failure,            \* the failure the environment injected, if any
    db_before,          \* the committed database when main was called
    headers,            \* sanitize_headers: its argument
    used,               \* sanitize_headers: used
    sanitized,          \* sanitize_headers: sanitized
    name_raw,           \* sanitize_identifier: raw, called without used
    name_out,           \* sanitize_identifier: its result without used
    cell,               \* a cell value
    cell_type,          \* the running type of the cell's column
    cell_type_before,   \* the running type before the cell was observed
    cell_out            \* convert_value's result for the cell

mainVars == <<pc, csv, raw_headers, sanitized_headers, inferred_types, row_count,
              table_name, conn, in_tx, db, work, batch, inserted_rows, rows_read,
              status, tx_end, failure, db_before>>
sanVars  == <<headers, used, sanitized, name_raw, name_out>>
cellVars == <<cell, cell_type, cell_type_before, cell_out>>
vars     == <<mainVars, sanVars, cellVars>>

\* ---- inputs --------------------------------------------------------------
BigInt == <<"9","2","2","3","3","7","2","0","3","6",
            "8","5","4","7","7","5","8","0","8">>

\* the header of the importable files: Name,name
GoodHeader == << <<"N","a","m","e">>, <<"n","a","m","e">> >>

\* data rows: a short one; a long one with an integer that does not fit
\* 64 bits, a null token and a surplus field; one of the header's length
SampleRows == {
    << <<"2",".","5">> >>,
    << BigInt, <<" ","N","A"," ">>, <<"x">> >>,
    << <<"x"," ","y">>, <<"-","0","7">> >> }

RECURSIVE SeqsUpTo(_, _)
SeqsUpTo(S, n) ==
    IF n = 0 THEN { <<>> }
    ELSE LET shorter == SeqsUpTo(S, n - 1)
         IN  shorter \cup { Append(q, x) : q \in shorter, x \in S }

File(exists, readable, lines) ==
    [exists |-> exists, readable |-> readable, lines |-> lines]

\* missing, unreadable, empty, blank first line, blank header names
BadFiles == {
    File(FALSE, FALSE, <<>>),
    File(TRUE, FALSE, <<GoodHeader>>),
    File(TRUE, TRUE, <<>>),
    File(TRUE, TRUE, << <<>>, << <<"1">> >> >>),
    File(TRUE, TRUE, << << <<>>, <<" ","\t">> >>, << <<"1">>, <<"2">> >> >>) }

GoodFiles == { File(TRUE, TRUE, <<GoodHeader>> \o rows) :
                 rows \in SeqsUpTo(SampleRows, MaxRows) }

Files == BadFiles \cup GoodFiles

\* os.path.splitext(os.path.basename(input_csv))[0]
csv_basename == <<"D","a","t","a"," ","2">>

\* ---- the database --------------------------------------------------------
Table(columns, types, rows) ==
    [exists |-> TRUE, columns |-> columns, types |-> types, rows |-> rows]
Absent == [exists |-> FALSE, columns |-> <<>>, types |-> <<>>, rows |-> <<>>]

TargetName == sanitize_identifier(csv_basename, <<"d","a","t","a">>, NoUsed).name
OtherName  == <<"z","i","p","_","c","o","u","n","t","y">>
TableNames == {TargetName, OtherName}

OtherTable == Table(<< <<"z","i","p">> >>, <<"INTEGER">>,
                    << <<Value("int", FALSE, <<"2","1","3","8">>, <<>>, 0)>> >>)
OldTable   == Table(<< <<"o","l","d">> >>, <<"TEXT">>,
                    << <<Value("text", FALSE, <<"k","e","e","p">>, <<>>, 0)>> >>)

\* DROP TABLE IF EXISTS dropping every table of the database
DropTableAll(d, name) == [t \in DOMAIN d |-> Absent]

\* DROP TABLE IF EXISTS name
DropTableIfExists(d, name) == [d EXCEPT ![name] = Absent]

\* CREATE TABLE name (c1 T1, ...), from build_create_table_sql
build_create_table(d, name, columns, types) ==
    [d EXCEPT ![name] = Table(columns, types, <<>>)]

\* executemany inserting every row of the batch twice
executemany_twice(d, name, rows) == [d EXCEPT ![name].rows = @ \o rows \o rows]

\* executemany(insert_sql, rows)
executemany(d, name, rows) == [d EXCEPT ![name].rows = @ \o rows]

\* ---- rows ----------------------------------------------------------------
\* the normalisation padding a short row with "0" instead of ""
NormalizePadZero(row, num_columns) ==
    IF Len(row) > num_columns THEN SubSeq(row, 1, num_columns)
    ELSE row \o [i \in 1..(num_columns - Len(row)) |-> <<"0">>]

\* infer_column_types: normalize row length to header length
NormalizeRowInfer(row, num_columns) ==
    IF Len(row) < num_columns
    THEN row \o [i \in 1..(num_columns - Len(row)) |-> <<>>]
    ELSE IF Len(row) > num_columns THEN SubSeq(row, 1, num_columns)
    ELSE row

\* main, pass 2: the same normalisation
NormalizeRowInsert(row, num_columns) ==
    IF Len(row) < num_columns
    THEN row \o [i \in 1..(num_columns - Len(row)) |-> <<>>]
    ELSE IF Len(row) > num_columns THEN SubSeq(row, 1, num_columns)
    ELSE row

\* one iteration of the row loop of infer_column_types
InferRow(types, row) ==
    LET r == NormalizeRowInfer(row, Len(types))
    IN  [i \in 1..Len(types) |-> upgrade_type(types[i], observed_cell_type(r[i]))]

\* main, pass 2: the converted tuple of one row
ConvertRow(row, types) ==
    LET r == NormalizeRowInsert(row, Len(types))
    IN  [i \in 1..Len(types) |-> convert_value(r[i], types[i])]

\* the header check that takes any non-empty header row
HeaderIsBlankOnlyEmpty(h) == h = <<>>

\* not raw_headers or all(str(h).strip() == "" for h in raw_headers)
HeaderIsBlank(h) ==
    h = <<>> \/ \A i \in 1..Len(h) : Strip(h[i], WhitespaceChars) = <<>>

DataRows == Tail(csv.lines)
num_columns == Len(sanitized_headers)

\* ---- the state outside a run of main, of the sanitizer, of the cell ------
Unset == Value("unset", FALSE, <<>>, <<>>, 0)

MainLocals ==
    /\ raw_headers = <<>>
    /\ sanitized_headers = <<>>
    /\ inferred_types = <<>>
    /\ row_count = 0
    /\ table_name = <<>>
    /\ conn = "unbound"
    /\ in_tx = FALSE
    /\ batch = <<>>
    /\ inserted_rows = 0
    /\ rows_read = 0
    /\ status = "running"
    /\ tx_end = "none"
    /\ failure = "none"

MainIdle ==
    /\ pc = "idle"
    /\ csv = File(FALSE, FALSE, <<>>)
    /\ MainLocals
    /\ db = [t \in TableNames |-> Absent]
    /\ work = db
    /\ db_before = db

SanIdle ==
    /\ headers = <<>>
    /\ used = {}
    /\ sanitized = <<>>
    /\ name_raw = NoneStr
    /\ name_out = NoneStr

CellIdle ==
    /\ cell = <<>>
    /\ cell_type = "INTEGER"
    /\ cell_type_before = NoType
    /\ cell_out = Unset

\* ---- main ----------------------------------------------------------------
InitialDatabases ==
    { [t \in TableNames |-> IF t = OtherName THEN OtherTable ELSE target] :
        target \in {Absent, OldTable} }

Init ==
    /\ pc = "start"
    /\ csv \in Files
    /\ MainLocals
    /\ db \in InitialDatabases
    /\ work = db
    /\ db_before = db
    /\ SanIdle
    /\ CellIdle

\* return 1 before the database was opened
ReturnFailure ==
    /\ pc' = "done"
    /\ status' = "1"

\* lines 205-207: os.path.isfile
CheckFile ==
    /\ pc = "start"
    /\ IF csv.exists
       THEN pc' = "read_header" /\ UNCHANGED status
       ELSE ReturnFailure
    /\ UNCHANGED <<csv, raw_headers, sanitized_headers, inferred_types, row_count,
                   table_name, conn, in_tx, db, work, batch, inserted_rows,
                   rows_read, tx_end, failure, db_before>>
    /\ UNCHANGED <<sanVars, cellVars>>

\* lines 210-224: open the file and read the header row
ReadHeader ==
    /\ pc = "read_header"
    /\ IF csv.readable /\ csv.lines # <<>>
       THEN /\ raw_headers' = csv.lines[1]
            /\ pc' = "check_header"
            /\ UNCHANGED status
       ELSE /\ ReturnFailure
            /\ UNCHANGED raw_headers
    /\ UNCHANGED <<csv, sanitized_headers, inferred_types, row_count,
                   table_name, conn, in_tx, db, work, batch, inserted_rows,
                   rows_read, tx_end, failure, db_before>>
    /\ UNCHANGED <<sanVars, cellVars>>

\* lines 226-231: reject a blank header, sanitize the column names
SanitizeHeaders ==
    /\ pc = "check_header"
    /\ IF HeaderIsBlank(raw_headers)
       THEN /\ ReturnFailure
            /\ UNCHANGED sanitized_headers
       ELSE /\ sanitized_headers' = sanitize_headers(raw_headers)
            /\ pc' = "infer_open"
            /\ UNCHANGED status
    /\ UNCHANGED <<csv, raw_headers, inferred_types, row_count,
                   table_name, conn, in_tx, db, work, batch, inserted_rows,
                   rows_read, tx_end, failure, db_before>>
    /\ UNCHANGED <<sanVars, cellVars>>

\* lines 148-155: infer_column_types starts, the header row is skipped
InferOpen ==
    /\ pc = "infer_open"
    /\ inferred_types' = [i \in 1..num_columns |-> "INTEGER"]
    /\ row_count' = 0
    /\ pc' = "infer"
    /\ UNCHANGED <<csv, raw_headers, sanitized_headers,
                   table_name, conn, in_tx, db, work, batch, inserted_rows,
                   rows_read, status, tx_end, failure, db_before>>
    /\ UNCHANGED <<sanVars, cellVars>>

\* lines 157-167: one data row of pass 1
InferNextRow ==
    /\ pc = "infer"
    /\ row_count < Len(DataRows)
    /\ row_count' = row_count + 1
    /\ inferred_types' = InferRow(inferred_types, DataRows[row_count + 1])
    /\ UNCHANGED <<pc, csv, raw_headers, sanitized_headers,
                   table_name, conn, in_tx, db, work, batch, inserted_rows,
                   rows_read, status, tx_end, failure, db_before>>
    /\ UNCHANGED <<sanVars, cellVars>>

\* lines 169, 241-242: pass 1 returns, the table name is derived
InferReturn ==
    /\ pc = "infer"
    /\ row_count = Len(DataRows)
    /\ table_name' = sanitize_identifier(csv_basename, <<"d","a","t","a">>, NoUsed).name
    /\ pc' = "connect"
    /\ UNCHANGED <<csv, raw_headers, sanitized_headers, inferred_types, row_count,
                   conn, in_tx, db, work, batch, inserted_rows,
                   rows_read, status, tx_end, failure, db_before>>
    /\ UNCHANGED <<sanVars, cellVars>>

\* lines 246-249: connect and set the pragmas
Connect ==
    /\ pc = "connect"
    /\ conn' = "open"
    /\ pc' = "drop"
    /\ UNCHANGED <<csv, raw_headers, sanitized_headers, inferred_types, row_count,
                   table_name, in_tx, db, work, batch, inserted_rows,
                   rows_read, status, tx_end, failure, db_before>>
    /\ UNCHANGED <<sanVars, cellVars>>

\* a statement run by conn.execute: outside a transaction the sqlite3 module
\* opens none for DDL, so the statement is committed as soon as it ran
Execute(after) ==
    /\ work' = after
    /\ db' = IF in_tx THEN db ELSE after

\* line 251: DROP TABLE IF EXISTS
DropTable ==
    /\ pc = "drop"
    /\ Execute(DropTableIfExists(work, table_name))
    /\ pc' = "create"
    /\ UNCHANGED <<csv, raw_headers, sanitized_headers, inferred_types, row_count,
                   table_name, conn, in_tx, batch, inserted_rows,
                   rows_read, status, tx_end, failure, db_before>>
    /\ UNCHANGED <<sanVars, cellVars>>

\* lines 252-253: CREATE TABLE
CreateTable ==
    /\ pc = "create"
    /\ Execute(build_create_table(work, table_name, sanitized_headers, inferred_types))
    /\ pc' = "begin"
    /\ UNCHANGED <<csv, raw_headers, sanitized_headers, inferred_types, row_count,
                   table_name, conn, in_tx, batch, inserted_rows,
                   rows_read, status, tx_end, failure, db_before>>
    /\ UNCHANGED <<sanVars, cellVars>>

\* lines 261-265: BEGIN
Begin ==
    /\ pc = "begin"
    /\ in_tx' = TRUE
    /\ batch' = <<>>
    /\ inserted_rows' = 0
    /\ pc' = "insert"
    /\ UNCHANGED <<csv, raw_headers, sanitized_headers, inferred_types, row_count,
                   table_name, conn, db, work,
                   rows_read, status, tx_end, failure, db_before>>
    /\ UNCHANGED <<sanVars, cellVars>>

\* lines 310-314 after an exception no handler of main catches: the
\* connection is closed with its transaction open, SQLite discards it
RaiseUncaught ==
    /\ conn' = "closed"
    /\ work' = db
    /\ in_tx' = FALSE
    /\ tx_end' = IF in_tx THEN "abandoned" ELSE tx_end
    /\ status' = "raised"
    /\ pc' = "done"

\* conn.executemany(insert_sql, batch) of lines 285-287 and 290-292
Flush(rows) ==
    IF \E r \in 1..Len(rows) : \E i \in 1..Len(rows[r]) : BindOverflows(rows[r][i])
    THEN /\ RaiseUncaught
         /\ batch' = rows
         /\ UNCHANGED <<db, inserted_rows>>
    ELSE /\ Execute(executemany(work, table_name, rows))
         /\ inserted_rows' = inserted_rows + Len(rows)
         /\ batch' = <<>>
         /\ UNCHANGED <<conn, in_tx, tx_end, status>>

\* lines 273-287: one data row of pass 2
InsertNextRow ==
    /\ pc = "insert"
    /\ rows_read < Len(DataRows)
    /\ rows_read' = rows_read + 1
    /\ LET converted == ConvertRow(DataRows[rows_read + 1], inferred_types)
           filled    == Append(batch, converted)
       IN  IF Len(filled) >= BatchSize
           THEN /\ Flush(filled)
                /\ IF status' = "raised" THEN TRUE ELSE pc' = pc
           ELSE /\ batch' = filled
                /\ UNCHANGED <<pc, conn, in_tx, db, work, inserted_rows, status, tx_end>>
    /\ UNCHANGED <<csv, raw_headers, sanitized_headers, inferred_types, row_count,
                   table_name, failure, db_before>>
    /\ UNCHANGED <<sanVars, cellVars>>

\* lines 289-292: the file is read, the partial batch is flushed
FinalFlush ==
    /\ pc = "insert"
    /\ rows_read = Len(DataRows)
    /\ IF batch # <<>>
       THEN /\ Flush(batch)
            /\ IF status' = "raised" THEN TRUE ELSE pc' = "commit"
       ELSE /\ pc' = "commit"
            /\ UNCHANGED <<conn, in_tx, db, work, batch, inserted_rows, status, tx_end>>
    /\ UNCHANGED <<csv, raw_headers, sanitized_headers, inferred_types, row_count,
                   table_name, rows_read, failure, db_before>>
    /\ UNCHANGED <<sanVars, cellVars>>

\* line 294: conn.commit()
Commit ==
    /\ pc = "commit"
    /\ db' = work
    /\ in_tx' = FALSE
    /\ tx_end' = "commit"
    /\ pc' = "close"
    /\ UNCHANGED <<csv, raw_headers, sanitized_headers, inferred_types, row_count,
                   table_name, conn, work, batch, inserted_rows,
                   rows_read, status, failure, db_before>>
    /\ UNCHANGED <<sanVars, cellVars>>

\* lines 310-319: close the connection, report, return 0
CloseAndReturn ==
    /\ pc = "close"
    /\ conn' = "closed"
    /\ status' = "0"
    /\ pc' = "done"
    /\ UNCHANGED <<csv, raw_headers, sanitized_headers, inferred_types, row_count,
                   table_name, in_tx, db, work, batch, inserted_rows,
                   rows_read, tx_end, failure, db_before>>
    /\ UNCHANGED <<sanVars, cellVars>>

\* the except blocks of lines 296-309 and the finally of lines 310-314:
\* roll back, close, return 1
HandleError(kind) ==
    /\ work' = db
    /\ in_tx' = FALSE
    /\ tx_end' = IF in_tx THEN "rollback" ELSE tx_end
    /\ conn' = IF conn = "open" THEN "closed" ELSE conn
    /\ status' = "1"
    /\ failure' = kind
    /\ pc' = "done"
    /\ UNCHANGED <<csv, raw_headers, sanitized_headers, inferred_types, row_count,
                   table_name, db, batch, inserted_rows, rows_read, db_before>>
    /\ UNCHANGED <<sanVars, cellVars>>

\* the next statement sent to the engine
StatementDue ==
    \/ pc \in {"connect", "drop", "create", "begin", "commit"}
    \/ pc = "insert" /\ rows_read < Len(DataRows) /\ Len(batch) + 1 >= BatchSize
    \/ pc = "insert" /\ rows_read = Len(DataRows) /\ batch # <<>>

\* lines 296-302: the engine fails the statement (disk, lock)
SqliteError ==
    /\ StatementDue
    /\ HandleError("sqlite3.Error")

\* lines 303-309: opening or reading the CSV fails in pass 2
InsertOSError ==
    /\ pc = "insert"
    /\ HandleError("OSError")

\* lines 322-323: the process ends with main's status; nothing but the
\* database outlives it
ProcessExit ==
    /\ pc = "done"
    /\ pc' = "exited"
    /\ csv' = File(FALSE, FALSE, <<>>)
    /\ raw_headers' = <<>>
    /\ sanitized_headers' = <<>>
    /\ inferred_types' = <<>>
    /\ row_count' = 0
    /\ table_name' = <<>>
    /\ conn' = "unbound"
    /\ batch' = <<>>
    /\ inserted_rows' = 0
    /\ rows_read' = 0
    /\ status' = "running"
    /\ tx_end' = "none"
    /\ failure' = "none"
    /\ db_before' = db
    /\ UNCHANGED <<in_tx, db, work>>
    /\ UNCHANGED <<sanVars, cellVars>>

\* the importer is run again, on another file, against the same database
NextImport ==
    /\ pc = "exited"
    /\ csv' \in Files
    /\ pc' = "start"
    /\ UNCHANGED <<raw_headers, sanitized_headers, inferred_types, row_count,
                   table_name, conn, in_tx, db, work, batch, inserted_rows,
                   rows_read, status, tx_end, failure, db_before>>
    /\ UNCHANGED <<sanVars, cellVars>>

\* one run of main
NextMain ==
    \/ CheckFile
    \/ ReadHeader
    \/ SanitizeHeaders
    \/ InferOpen
    \/ InferNextRow
    \/ InferReturn
    \/ Connect
    \/ DropTable
    \/ CreateTable
    \/ Begin
    \/ InsertNextRow
    \/ FinalFlush
    \/ Commit
    \/ CloseAndReturn
    \/ SqliteError
    \/ InsertOSError
    \/ ProcessExit

SpecMain == Init /\ [][NextMain]_vars

\* runs of main one after the other against the same database
Next ==
    \/ NextMain
    \/ NextImport

Spec == Init /\ [][Next]_vars

\* ---- the sanitizer on its own --------------------------------------------
RawHeaders == {
    <<"N","a","m","e">>,
    <<"n","a","m","e">>,
    <<"N","A","M","E"," ">>,
    <<"n","a","m","e","_","1">>,
    <<>>,
    <<"s","e","l","e","c","t">>,
    <<"1","s","t">>,
    <<"$","a"," ","b","!">>,
    <<"_">> }

RawNames == RawHeaders \cup {NoneStr, <<"BOM","T","a","b","l","e">>}

InitSan ==
    /\ MainIdle
    /\ CellIdle
    /\ headers \in SeqsUpTo(RawHeaders, MaxHeaders)
    /\ used = {}
    /\ sanitized = <<>>
    /\ name_raw \in (IF headers = <<>> THEN RawNames ELSE {headers[1]})
    /\ name_out = NoneStr

\* lines 90-92: one iteration of the loop of sanitize_headers
SanitizeNextHeader ==
    /\ Len(sanitized) < Len(headers)
    /\ LET st == SanitizeHeadersStep([used |-> used, sanitized |-> sanitized],
                                     headers[Len(sanitized) + 1])
       IN  /\ used' = st.used
           /\ sanitized' = st.sanitized
    /\ UNCHANGED <<headers, name_raw, name_out>>
    /\ UNCHANGED <<mainVars, cellVars>>

\* line 242: sanitize_identifier called without a used set
SanitizeName ==
    /\ name_out = NoneStr
    /\ name_out' = sanitize_identifier(name_raw, <<"d","a","t","a">>, NoUsed).name
    /\ UNCHANGED <<headers, used, sanitized, name_raw>>
    /\ UNCHANGED <<mainVars, cellVars>>

NextSan ==
    \/ SanitizeNextHeader
    \/ SanitizeName

SpecSan == InitSan /\ [][NextSan]_vars

\* ---- one cell on its own -------------------------------------------------
NullCells == {
    <<>>,
    <<" ">>,
    <<"N","A">>,
    <<"n","a">>,
    <<" ","n","/","a"," ">>,
    <<"N","/","A">>,
    <<"N","U","L","L">>,
    <<"N","u","l","l","\t">>,
    <<"n","o","n","e">>,
    <<"N","O","N","E">> }

OtherCells == {
    <<"n","a","n">>,
    <<"n",".","a">>,
    <<"n","u","l">>,
    <<"7">>,
    <<"+","7">>,
    <<"-","0">>,
    <<"2",".","5">>,
    <<".","5">>,
    <<"1","e","3">>,
    <<"1","e","9","9","9">>,
    <<"i","n","f">>,
    <<"x">>,
    <<"1"," ","2">>,
    <<"7",".">>,
    BigInt }

Cells == NullCells \cup OtherCells

ColumnTypes == {"INTEGER", "REAL", "TEXT"}

InitCell ==
    /\ MainIdle
    /\ SanIdle
    /\ cell \in Cells
    /\ cell_type \in ColumnTypes
    /\ cell_type_before = NoType
    /\ cell_out = Unset

\* lines 166-167: the cell is observed in pass 1
ObserveCell ==
    /\ cell_type_before = NoType
    /\ cell_out = Unset
    /\ cell_type_before' = cell_type
    /\ cell_type' = upgrade_type(cell_type, observed_cell_type(cell))
    /\ UNCHANGED <<cell, cell_out>>
    /\ UNCHANGED <<mainVars, sanVars>>

\* line 280: the cell is converted in pass 2
ConvertCell ==
    /\ cell_out = Unset
    /\ cell_out' = convert_value(cell, cell_type)
    /\ UNCHANGED <<cell, cell_type, cell_type_before>>
    /\ UNCHANGED <<mainVars, sanVars>>

NextCell ==
    \/ ObserveCell
    \/ ConvertCell

SpecCell == InitCell /\ [][NextCell]_vars

(***************************************************************************)
(* Properties.                                                             *)
(***************************************************************************)
Running == pc \notin {"idle", "exited"}

\* the input errors of main, read off the file: missing, unreadable, no
\* header row, an empty header row, header names of whitespace only
BadInput ==
    \/ ~csv.exists
    \/ ~csv.readable
    \/ csv.lines = <<>>
    \/ csv.lines[1] = <<>>
    \/ \A i \in 1..Len(csv.lines[1]) :
          \A j \in 1..Len(csv.lines[1][i]) : csv.lines[1][i][j] \in WhitespaceChars

\* C1: the drop, the create and the inserts of one import are one
\* transaction: when main returns the failure status the committed database
\* is exactly as it was when main was called.
C1_FailureLeavesDatabaseAsBefore ==
    (pc = "done" /\ status = "1") => db = db_before

\* C2: on every exit path after the connection was opened the connection is
\* closed and the transaction that was open has been committed or rolled
\* back explicitly; none is left open or abandoned to the close.
C2_TransactionSettledOnEveryExit ==
    (pc = "done" /\ conn # "unbound")
        => (conn = "closed" /\ ~in_tx /\ tx_end # "abandoned")

\* C3: input errors fail fast: with a missing or unreadable file, no header
\* row or a blank header, main never opens a connection, never changes the
\* database, and returns the failure status.
C3_InputErrorsFailFast ==
    (Running /\ BadInput)
        => /\ conn = "unbound"
           /\ db = db_before
           /\ work = db_before
           /\ pc \in {"start", "read_header", "check_header", "done"}
           /\ (pc = "done" => status = "1")

C3_Witness ==
    /\ pc = "done"
    /\ status = "1"
    /\ csv.readable
    /\ csv.lines # <<>>
    /\ csv.lines[1] # <<>>
    /\ BadInput
    /\ db[TargetName].exists

\* C4: the content of a cell never makes the import fail: on a good input
\* file and with no failure of the engine or the file system, main returns
\* the success status.
C4_CellContentNeverFailsImport ==
    (pc = "done" /\ ~BadInput /\ failure = "none") => status = "0"

\* ---- sanitizer -------------------------------------------------------------
\* the name a header gets among the names given out before it: its own
\* sanitized name if that is free, else that name with the first free
\* suffix _1, _2, ...
Suffixed(base, k) == base \o <<"_">> \o Str(k)

FirstFree(base, earlier) ==
    IF base \notin earlier THEN base
    ELSE Suffixed(base,
            CHOOSE k \in 1..(Cardinality(earlier) + 1) :
                /\ Suffixed(base, k) \notin earlier
                /\ \A m \in 1..(k - 1) : Suffixed(base, m) \in earlier)

\* C5: the outputs of sanitize_headers are aligned with the input, pairwise
\* distinct, and disambiguated in column order: a header keeps its sanitized
\* name when no earlier output has it, else it gets the first free suffix.
\* Name, name, NAME give name, name_1, name_2.
C5_HeadersDistinctInColumnOrder ==
    /\ Len(sanitized) <= Len(headers)
    /\ \A i \in 1..Len(sanitized) :
          /\ \A j \in 1..(i - 1) : sanitized[j] # sanitized[i]
          /\ sanitized[i] = FirstFree(CleanIdentifier(headers[i], ColPrefix(i)),
                                      {sanitized[j] : j \in 1..(i - 1)})
    /\ (headers = <<<<"N","a","m","e">>, <<"n","a","m","e">>, <<"N","A","M","E"," ">>>> /\ Len(sanitized) = 3)
          => sanitized = <<<<"n","a","m","e">>, <<"n","a","m","e","_","1">>, <<"n","a","m","e","_","2">>>>

C5_Witness ==
    /\ headers = <<<<"N","a","m","e">>, <<"n","a","m","e","_","1">>, <<"n","a","m","e">>>>
    /\ sanitized = <<<<"n","a","m","e">>, <<"n","a","m","e","_","1">>, <<"n","a","m","e","_","2">>>>

ValidIdentifier(name) ==
    /\ name # <<>>
    /\ \A i \in 1..Len(name) : name[i] \in LowerChars \cup DigitChars \cup {"_"}
    /\ name[1] \notin DigitChars
    /\ name \notin SQLITE_RESERVED_KEYWORDS

\* C6: every identifier sanitize_identifier returns, with or without the
\* used set, is non-empty, made of lowercase letters, digits and
\* underscores, does not start with a digit and is no reserved keyword.
C6_IdentifiersAreValid ==
    /\ \A i \in 1..Len(sanitized) : ValidIdentifier(sanitized[i])
    /\ name_out # NoneStr => ValidIdentifier(name_out)

C6_Witness ==
    /\ headers = <<<<"s","e","l","e","c","t">>, <<"s","e","l","e","c","t">>, <<"1","s","t">>>>
    /\ sanitized = <<<<"s","e","l","e","c","t","_">>, <<"s","e","l","e","c","t","_","_","1">>, <<"c","o","l","_","3","_","1","s","t">>>>
    /\ name_out = <<"s","e","l","e","c","t","_">>

\* ---- type inference --------------------------------------------------------
\* the cells a column has in the first k data rows: a row that is too short
\* has none there, the fields beyond the header belong to no column
ColumnCells(i, k) ==
    { DataRows[r][i] : r \in { r \in 1..k : i <= Len(DataRows[r]) } }

NonNullTypes(i, k) ==
    { observed_cell_type(c) : c \in ColumnCells(i, k) } \ {NoType}

MaxType(S) ==
    IF S = {} THEN "INTEGER"
    ELSE CHOOSE t \in S : \A u \in S : order(u) <= order(t)

C7_TypeIsMaxOfObserved ==
    (Running /\ inferred_types # <<>>) =>
        \A i \in 1..Len(inferred_types) :
            inferred_types[i] = MaxType(NonNullTypes(i, row_count))

C7_TypeNeverMovesDown ==
    (inferred_types # <<>> /\ inferred_types' # <<>>) =>
        \A i \in 1..Len(inferred_types) :
            order(inferred_types'[i]) >= order(inferred_types[i])

\* C7: after every row of pass 1 a column's running type is the maximum,
\* under INTEGER < REAL < TEXT, of the types of the non-null cells the column
\* had so far (INTEGER when it had none), whatever the order of the rows, and
\* it never moves down the chain.
C7_InferredTypeIsTheJoin ==
    [](C7_TypeIsMaxOfObserved) /\ [][C7_TypeNeverMovesDown]_vars

C7_Witness ==
    /\ pc = "infer"
    /\ row_count = 3
    /\ observed_cell_type(DataRows[1][1]) = "TEXT"
    /\ observed_cell_type(DataRows[2][1]) = "REAL"
    /\ observed_cell_type(DataRows[3][1]) = "INTEGER"
    /\ inferred_types[1] = "TEXT"

\* C8: a cell that is a null token up to surrounding whitespace and case
\* leaves the running type of its column as it was and is converted to NULL
\* whatever the type of the column.
C8_NullTokensAreNeutral ==
    cell \in NullCells =>
        /\ cell_type_before # NoType => cell_type = cell_type_before
        /\ cell_out # Unset => cell_out = None

C8_Witness ==
    /\ cell = <<"N","u","l","l","\t">>
    /\ cell_type_before = "TEXT"
    /\ cell_out = None

\* ---- rows ------------------------------------------------------------------
\* the rows pass 2 has converted so far: flushed to the table or in the batch
ConvertedRows == work[TargetName].rows \o batch

InPass2 == pc \in {"insert", "commit", "close"} \/ (pc = "done" /\ status = "0")

\* C9: a row of any length is taken by both passes: every converted row has
\* one value per header column, the value of a column the row has a field
\* for is that field converted and the value of a missing trailing column is
\* NULL; a column's type comes from the fields the rows have for it, never
\* from the padding or from the fields beyond the header.
C9_RowLengthIsNormalised ==
    /\ InPass2 =>
          /\ Len(ConvertedRows) = rows_read
          /\ \A j \in 1..Len(ConvertedRows) :
                /\ Len(ConvertedRows[j]) = Len(csv.lines[1])
                /\ \A i \in 1..Len(csv.lines[1]) :
                      ConvertedRows[j][i] =
                          IF i <= Len(DataRows[j])
                          THEN convert_value(DataRows[j][i], inferred_types[i])
                          ELSE None
    /\ (Running /\ inferred_types # <<>>) =>
          \A i \in 1..Len(inferred_types) :
              inferred_types[i] \in {"INTEGER"} \cup NonNullTypes(i, row_count)

C9_Witness ==
    /\ pc = "done"
    /\ status = "0"
    /\ Len(db[TargetName].rows) = 3
    /\ \E j \in 1..3 : Len(DataRows[j]) < Len(csv.lines[1])
    /\ \E j \in 1..3 : Len(DataRows[j]) > Len(csv.lines[1])

\* ---- re-import -------------------------------------------------------------
\* C10: after a successful import the table holds exactly the columns and
\* the rows of the file just imported, whatever earlier imports or others
\* left under that name, and the table of another name is as it was.
C10_ImportReplacesTheTable ==
    (pc = "done" /\ status = "0") =>
        /\ db[TargetName] =
              Table(sanitize_headers(csv.lines[1]),
                    [i \in 1..Len(csv.lines[1]) |->
                        MaxType(NonNullTypes(i, Len(DataRows)))],
                    [j \in 1..Len(DataRows) |-> ConvertRow(DataRows[j], inferred_types)])
        /\ db[OtherName] = OtherTable

C10_Witness ==
    /\ pc = "done"
    /\ status = "0"
    /\ db_before[TargetName].exists
    /\ db_before[TargetName].columns = sanitized_headers
    /\ Len(db_before[TargetName].rows) = 3
    /\ Len(db[TargetName].rows) = 1
    /\ db[TargetName].types # db_before[TargetName].types

\* ---- batching --------------------------------------------------------------
\* the row the table must hold for data row j: one value per header column
StoredRow(j) ==
    [i \in 1..Len(csv.lines[1]) |->
        IF i <= Len(DataRows[j])
        THEN convert_value(DataRows[j][i], inferred_types[i])
        ELSE None]

\* C11: batching loses, duplicates and reorders nothing: at every point of
\* a run the rows inserted plus the rows waiting in the batch are the rows
\* read so far, the batch holds no more rows than the batch size, the rows
\* flushed are in the table in file order; on success every data row is in
\* the table once, in file order, and the count reported is the number of
\* data rows of the file.
C11_BatchingKeepsEveryRow ==
    /\ Running => /\ inserted_rows + Len(batch) = rows_read
                  /\ Len(batch) <= BatchSize
    /\ InPass2 =>
          /\ rows_read <= Len(DataRows)
          /\ Len(work[TargetName].rows) = inserted_rows
          /\ \A j \in 1..inserted_rows : work[TargetName].rows[j] = StoredRow(j)
          /\ \A k \in 1..Len(batch) : batch[k] = StoredRow(inserted_rows + k)
    /\ (pc = "done" /\ status = "0") =>
          /\ inserted_rows = Len(DataRows)
          /\ inserted_rows = row_count
          /\ batch = <<>>
          /\ db[TargetName].rows = [j \in 1..Len(DataRows) |-> StoredRow(j)]

\* a success after an in-loop flush followed by a partial final batch
C11_Witness ==
    /\ pc = "done"
    /\ status = "0"
    /\ Len(DataRows) > BatchSize
    /\ Len(DataRows) % BatchSize # 0
    /\ inserted_rows = Len(DataRows)
    /\ Len(db[TargetName].rows) = Len(DataRows)
    /\ \E j \in 1..Len(DataRows) : \E k \in 1..Len(DataRows) :
          db[TargetName].rows[j] # db[TargetName].rows[k]

====
